---- MODULE Spec2Model ----
\* Model of gpg2openpgpkey.py: the main sequence (import, list, parse, identity
\* check, export, format, cleanup), the RunProgram thread with its timeout,
\* and parse_key with the OpenPGPKey objects it builds.
\*
\* Strings are sequences of one-character strings.  None is a value that is
\* no string.  Objects live in a heap (a sequence of records) and references
\* are heap indices, 0 being None.
EXTENDS Integers, Sequences, FiniteSets, TLC

\* ---------------------------------------------------------------- bounds
MaxLines == 4
MaxOut == 1

\* ---------------------------------------------------------------- values
None == <<"None">>

SIGTERM == 15

\* sys.exit(1) in error_quit, and the status of an uncaught exception
EXIT_FAILURE == 1

\* sys.exit(11) after a failed final rmtree
EXIT_RMTREE == 11

\* Scaled stand-in for the largest timestamp time.gmtime accepts.
TimeMax == 50

Digits == <<"0", "1", "2", "3", "4", "5", "6", "7", "8", "9">>

\* ---------------------------------------------------------------- strings
Range(s) == {s[i] : i \in 1..Len(s)}

\* s[i:j] of Python, 1-based and inclusive here; empty when i > j
Slice(s, i, j) == [k \in 1..(IF j >= i THEN j - i + 1 ELSE 0) |-> s[i + k - 1]]

\* s.find(c) + 1, or 0 when c does not occur at or after position from
RECURSIVE FindFrom(_, _, _)
FindFrom(s, c, from) ==
    IF from > Len(s) THEN 0
    ELSE IF s[from] = c THEN from
    ELSE FindFrom(s, c, from + 1)

RECURSIVE LStrip(_)
LStrip(s) == IF s # <<>> /\ Head(s) = " " THEN LStrip(Tail(s)) ELSE s

RECURSIVE RStrip(_)
RStrip(s) ==
    IF s # <<>> /\ s[Len(s)] = " " THEN RStrip(SubSeq(s, 1, Len(s) - 1)) ELSE s

Strip(s) == LStrip(RStrip(s))

DigitVal(c) == (CHOOSE i \in 1..Len(Digits) : Digits[i] = c) - 1

IsDigits(s) == s # <<>> /\ \A i \in 1..Len(s) : s[i] \in Range(Digits)

\* int(s) and float(s) on a digit string
RECURSIVE ToNum(_)
ToNum(s) ==
    IF s = <<>> THEN 0
    ELSE 10 * ToNum(SubSeq(s, 1, Len(s) - 1)) + DigitVal(s[Len(s)])

\* rfc822.parseaddr on the address forms "name <addr>", "<addr>", "addr" and
\* on a field without an address: the pair (name, address), or (None, None)
\* for a field that holds nothing.
parseaddr(s) ==
    LET t == Strip(s)
        lt == FindFrom(t, "<", 1)
        gt == FindFrom(t, ">", lt + 1)
        sp == FindFrom(t, " ", 1)
    IN  IF t = <<>> THEN <<None, None>>
        ELSE IF lt > 0
             THEN <<Strip(Slice(t, 1, lt - 1)),
                    Slice(t, lt + 1, (IF gt > 0 THEN gt ELSE Len(t) + 1) - 1)>>
        ELSE <<<<>>,
               Slice(t, 1, (IF sp > 0 THEN sp ELSE Len(t) + 1) - 1)>>

\* validate_uid: the address of the argument, or None without an "@"
validate_uid(inputstring) ==
    LET email == parseaddr(inputstring)[2]
    IN  IF "@" \in Range(email) THEN email ELSE None

\* ---------------------------------------------------------------- hashlib
\* hashlib.sha256 (FIPS 180-4).  A 32-bit word is a pair << high, low >> of
\* 16-bit halves, so that no sum leaves the range of a signed 32-bit integer.
HALF == 65536

RECURSIVE Xor16(_, _)
Xor16(a, b) ==
    IF a = 0 THEN b
    ELSE IF b = 0 THEN a
    ELSE ((a + b) % 2) + 2 * Xor16(a \div 2, b \div 2)

RECURSIVE And16(_, _)
And16(a, b) ==
    IF a = 0 \/ b = 0 THEN 0
    ELSE (a % 2) * (b % 2) + 2 * And16(a \div 2, b \div 2)

XOR(x, y) == << Xor16(x[1], y[1]), Xor16(x[2], y[2]) >>
AND(x, y) == << And16(x[1], y[1]), And16(x[2], y[2]) >>
NOT(x) == << HALF - 1 - x[1], HALF - 1 - x[2] >>
ADD(x, y) ==
    LET lo == x[2] + y[2]
    IN  << (x[1] + y[1] + (lo \div HALF)) % HALF, lo % HALF >>

\* rotation to the right by n < 16 bits, then by any n < 32
Rotr16(x, n) ==
    LET m == 2 ^ n
    IN  << (x[1] \div m) + (x[2] % m) * (HALF \div m),
           (x[2] \div m) + (x[1] % m) * (HALF \div m) >>
ROTR(x, n) == IF n >= 16 THEN Rotr16(<< x[2], x[1] >>, n - 16) ELSE Rotr16(x, n)
\* shift to the right by n < 16 bits
SHR(x, n) ==
    LET m == 2 ^ n
    IN  << x[1] \div m, (x[2] \div m) + (x[1] % m) * (HALF \div m) >>

Ch(x, y, z) == XOR(AND(x, y), AND(NOT(x), z))
Maj(x, y, z) == XOR(XOR(AND(x, y), AND(x, z)), AND(y, z))
BSIG0(x) == XOR(XOR(ROTR(x, 2), ROTR(x, 13)), ROTR(x, 22))
BSIG1(x) == XOR(XOR(ROTR(x, 6), ROTR(x, 11)), ROTR(x, 25))
SSIG0(x) == XOR(XOR(ROTR(x, 7), ROTR(x, 18)), SHR(x, 3))
SSIG1(x) == XOR(XOR(ROTR(x, 17), ROTR(x, 19)), SHR(x, 10))

SHA256_H0 ==
    << <<27145, 58983>>, <<47975, 44677>>, <<15470, 62322>>, <<42319, 62778>>,
       <<20750, 21119>>, <<39685, 26764>>, <<8067, 55723>>, <<23520, 52505>> >>

SHA256_K ==
    << <<17034, 12184>>, <<28983, 17553>>, <<46528, 64463>>, <<59829, 56229>>,
       <<14678, 49755>>, <<23025, 4593>>, <<37439, 33444>>, <<43804, 24277>>,
       <<55303, 43672>>, <<4739, 23297>>, <<9265, 34238>>, <<21772, 32195>>,
       <<29374, 23924>>, <<32990, 45566>>, <<39900, 1703>>, <<49563, 61812>>,
       <<58523, 27073>>, <<61374, 18310>>, <<4033, 40390>>, <<9228, 41420>>,
       <<11753, 11375>>, <<19060, 33962>>, <<23728, 43484>>, <<30457, 35034>>,
       <<38974, 20818>>, <<43057, 50797>>, <<45059, 10184>>, <<48985, 32711>>,
       <<50912, 3059>>, <<54695, 37191>>, <<1738, 25425>>, <<5161, 10599>>,
       <<10167, 2693>>, <<11803, 8504>>, <<19756, 28156>>, <<21304, 3347>>,
       <<25866, 29524>>, <<30314, 2747>>, <<33218, 51502>>, <<37490, 11397>>,
       <<41663, 59553>>, <<43034, 26187>>, <<49739, 35696>>, <<51052, 20899>>,
       <<53650, 59417>>, <<54937, 1572>>, <<62478, 13701>>, <<4202, 41072>>,
       <<6564, 49430>>, <<7735, 27656>>, <<10056, 30540>>, <<13488, 48309>>,
       <<14620, 3251>>, <<20184, 43594>>, <<23452, 51791>>, <<26670, 28659>>,
       <<29839, 33518>>, <<30885, 25455>>, <<33992, 30740>>, <<36039, 520>>,
       <<37054, 65530>>, <<42064, 27883>>, <<48889, 41975>>, <<50801, 30962>> >>

\* the message, 0x80, zeros up to 56 mod 64, the bit length in 8 bytes
Sha256Pad(bytes) ==
    LET n == Len(bytes)
        total == (((n + 8) \div 64) + 1) * 64
        bits == 8 * n
    IN  [i \in 1..total |->
            IF i <= n THEN bytes[i]
            ELSE IF i = n + 1 THEN 128
            ELSE IF i <= total - 4 THEN 0
            ELSE (bits \div (256 ^ (total - i))) % 256]

RECURSIVE Sha256Schedule(_)
Sha256Schedule(w) ==
    IF Len(w) = 64 THEN w
    ELSE LET t == Len(w) + 1
         IN  Sha256Schedule(Append(w,
                 ADD(ADD(SSIG1(w[t - 2]), w[t - 7]),
                     ADD(SSIG0(w[t - 15]), w[t - 16]))))

\* round t on the working variables s = << a, b, c, d, e, f, g, h >>
Sha256Round(s, w, t) ==
    LET t1 == ADD(ADD(ADD(s[8], BSIG1(s[5])), Ch(s[5], s[6], s[7])),
                  ADD(SHA256_K[t], w[t]))
        t2 == ADD(BSIG0(s[1]), Maj(s[1], s[2], s[3]))
    IN  << ADD(t1, t2), s[1], s[2], s[3], ADD(s[4], t1), s[5], s[6], s[7] >>

\* the working variables before round 1 and after each of the 64 rounds
RECURSIVE Sha256Rounds(_, _)
Sha256Rounds(ss, w) ==
    LET t == Len(ss)
    IN  IF t > 64 THEN ss
        ELSE Sha256Rounds(Append(ss, Sha256Round(ss[t], w, t)), w)

\* one 64-byte block, starting at byte `from` of m, folded into the state h
Sha256Block(h, m, from) ==
    LET w == Sha256Schedule(
                 [i \in 1..16 |->
                     << m[from + 4 * i - 4] * 256 + m[from + 4 * i - 3],
                        m[from + 4 * i - 2] * 256 + m[from + 4 * i - 1] >>])
        s == Sha256Rounds(<< h >>, w)[65]
    IN  [i \in 1..8 |-> ADD(h[i], s[i])]

RECURSIVE Sha256Blocks(_, _, _)
Sha256Blocks(h, m, from) ==
    IF from > Len(m) THEN h
    ELSE Sha256Blocks(Sha256Block(h, m, from), m, from + 64)

HexDigits == << "0", "1", "2", "3", "4", "5", "6", "7",
                "8", "9", "a", "b", "c", "d", "e", "f" >>

\* two lowercase hex digits per byte: str.encode('hex'), hexdigest()
HexOfByte(b) == << HexDigits[(b \div 16) + 1], HexDigits[(b % 16) + 1] >>

\* the printable ASCII characters, from " " (32) to "~" (126); the grave
\* accent (96) cannot be written in a string here and is spelt out
Ascii ==
    << " ", "!", "\"", "#", "$", "%", "&", "'", "(", ")", "*", "+", ",", "-",
       ".", "/", "0", "1", "2", "3", "4", "5", "6", "7", "8", "9", ":", ";",
       "<", "=", ">", "?", "@", "A", "B", "C", "D", "E", "F", "G", "H", "I",
       "J", "K", "L", "M", "N", "O", "P", "Q", "R", "S", "T", "U", "V", "W",
       "X", "Y", "Z", "[", "\\", "]", "^", "_", "grave", "a", "b", "c", "d", "e",
       "f", "g", "h", "i", "j", "k", "l", "m", "n", "o", "p", "q", "r", "s",
       "t", "u", "v", "w", "x", "y", "z", "{", "|", "}", "~" >>

\* ord(ch)
Ord(ch) == 31 + CHOOSE i \in 1..Len(Ascii) : Ascii[i] = ch

\* h = hashlib.sha256(); h.update(s); h.hexdigest()
sha256_hexdigest(s) ==
    LET h == Sha256Blocks(SHA256_H0, Sha256Pad([i \in 1..Len(s) |-> Ord(s[i])]), 1)
    IN  [i \in 1..64 |->
            LET word == h[(i + 7) \div 8]
                half == word[(((i - 1) % 8) \div 4) + 1]
            IN  HexDigits[((half \div (16 ^ (3 - ((i - 1) % 4)))) % 16) + 1]]

\* ---------------------------------------------------------------- encodings
\* s.split(sep) for a one-character separator
RECURSIVE split(_, _)
split(s, sep) ==
    LET i == FindFrom(s, sep, 1)
    IN  IF i = 0 THEN << s >>
        ELSE << SubSeq(s, 1, i - 1) >> \o split(SubSeq(s, i + 1, Len(s)), sep)

\* "{}".format(n) for an int n >= 0
RECURSIVE ToDecimal(_)
ToDecimal(n) ==
    IF n < 10 THEN << Digits[n + 1] >>
    ELSE Append(ToDecimal(n \div 10), Digits[(n % 10) + 1])

\* keydata.encode('hex'); key material is a sequence of bytes, 0..255
HexEncode(s) ==
    [k \in 1..(2 * Len(s)) |-> HexOfByte(s[(k + 1) \div 2])[2 - (k % 2)]]

B64Alphabet ==
    << "A", "B", "C", "D", "E", "F", "G", "H", "I", "J", "K", "L", "M", "N",
       "O", "P", "Q", "R", "S", "T", "U", "V", "W", "X", "Y", "Z", "a", "b",
       "c", "d", "e", "f", "g", "h", "i", "j", "k", "l", "m", "n", "o", "p",
       "q", "r", "s", "t", "u", "v", "w", "x", "y", "z", "0", "1", "2", "3",
       "4", "5", "6", "7", "8", "9", "+", "/" >>

\* base64.standard_b64encode: four characters for every three bytes, "=" in
\* place of the characters that would carry no byte of the input
standard_b64encode(s) ==
    LET n == Len(s)
        byte(i) == IF i <= n THEN s[i] ELSE 0
    IN  [k \in 1..(4 * ((n + 2) \div 3)) |->
            LET g == (k - 1) \div 4
                j == (k - 1) % 4
                b1 == byte(3 * g + 1)
                b2 == byte(3 * g + 2)
                b3 == byte(3 * g + 3)
                sextet == CASE j = 0 -> b1 \div 4
                            [] j = 1 -> (b1 % 4) * 16 + (b2 \div 16)
                            [] j = 2 -> (b2 % 16) * 4 + (b3 \div 64)
                            [] j = 3 -> b3 % 64
            IN  IF 3 * g + j > n THEN "=" ELSE B64Alphabet[sextet + 1]]

\* stringchunks with range(0, len(s) - n + 1, n): a last chunk shorter than n
\* is not yielded
stringchunks_DropsPartial(s, n) ==
    [k \in 1..(Len(s) \div n) |-> SubSeq(s, (k - 1) * n + 1, k * n)]

\* stringchunks(s, n): s[i:i+n] for i in xrange(0, len(s), n)
stringchunks(s, n) ==
    [k \in 1..((Len(s) + n - 1) \div n) |->
        SubSeq(s, (k - 1) * n + 1, IF k * n < Len(s) THEN k * n ELSE Len(s))]

\* ---------------------------------------------------------------- record
HASHLEN == 56
CHUNK == 60
INDENT == 18

\* "._openpgpkey."
Label == << ".", "_", "o", "p", "e", "n", "p", "g", "p", "k", "e", "y", "." >>

\* email.split('@') unpacks into localpart, rhs
Unpacks(email) == Len(split(email, "@")) = 2

\* get_ownername appending the dot whatever the owner name ends in
get_ownername_AlwaysDot(email) ==
    LET localpart == split(email, "@")[1]
        rhs == split(email, "@")[2]
        owner == SubSeq(sha256_hexdigest(localpart), 1, HASHLEN) \o Label \o rhs
    IN  owner \o << "." >>

\* get_ownername(email), for an email that unpacks
get_ownername(email) ==
    LET localpart == split(email, "@")[1]
        rhs == split(email, "@")[2]
        owner == SubSeq(sha256_hexdigest(localpart), 1, HASHLEN) \o Label \o rhs
    IN  IF owner[Len(owner)] # "." THEN owner \o << "." >> ELSE owner

\* " IN OPENPGPKEY (\n"
TypedHeader ==
    << " ", "I", "N", " ", "O", "P", "E", "N", "P", "G", "P", "K", "E", "Y",
       " ", "(", "\n" >>

\* " IN TYPE61 \# ", then the length, then " ("
GenericHeader ==
    << " ", "I", "N", " ", "T", "Y", "P", "E", "6", "1", " ", "\\", "#", " " >>

\* `output += "                  {}\n".format(line)` for each chunk from k on
RECURSIVE BodyLines(_, _)
BodyLines(chunks, k) ==
    IF k > Len(chunks) THEN << >>
    ELSE [i \in 1..INDENT |-> " "] \o chunks[k] \o << "\n" >>
            \o BodyLines(chunks, k + 1)

\* gen_openpgpkey writing the length of the hex text into the header
gen_openpgpkey_LengthOfHex(email, kd, generic) ==
    LET owner == get_ownername(email)
    IN  IF ~generic
        THEN owner \o TypedHeader
                \o BodyLines(stringchunks(standard_b64encode(kd), CHUNK), 1)
                \o << ")" >>
        ELSE owner \o GenericHeader \o ToDecimal(Len(HexEncode(kd)))
                \o << " ", "(" >>
                \o BodyLines(stringchunks(HexEncode(kd), CHUNK), 1)
                \o << ")" >>

\* gen_openpgpkey(email, keydata, generic), for an email that unpacks
gen_openpgpkey(email, kd, generic) ==
    LET owner == get_ownername(email)
    IN  IF ~generic
        THEN owner \o TypedHeader
                \o BodyLines(stringchunks(standard_b64encode(kd), CHUNK), 1)
                \o << ")" >>
        ELSE owner \o GenericHeader \o ToDecimal(Len(kd))
                \o << " ", "(" >>
                \o BodyLines(stringchunks(HexEncode(kd), CHUNK), 1)
                \o << ")" >>

\* ---------------------------------------------------------------- inputs
\* argv[1]: "j@x", "J <j@x>", "J"
Args ==
    { <<"j", "@", "x">>,
      <<"J", " ", "<", "j", "@", "x", ">">>,
      <<"J">> }

\* contents of the key file: empty, or some key bytes
KeyFiles == { <<>>, <<"K">> }

\* field 10 of a uid record: "J <j@x>", "J@x", ""
UserIds ==
    { <<"J", " ", "<", "j", "@", "x", ">">>,
      <<"J", "@", "x">>,
      <<>> }

\* field 10 of a fpr record
Fprs == { <<"F", "1">>, <<"F", "2">> }

\* field 6 (creation date) of a pub or sub record: a timestamp, a text that
\* is no number, a timestamp beyond what gmtime accepts
Dates == { <<"1">>, <<"x">>, <<"9", "9">> }

\* a pub or sub record is unpacked into its first twelve fields
PUBFIELDS == 12

\* parts[9] of a uid or fpr record
UIDINDEX == 9

\* One line of the listing after split(':'): its record type parts[0], the
\* number of fields len(parts), and the one field the parser reads besides
\* the type (creation date, user id or fingerprint).
Rec(tag, nf, val) == [tag |-> tag, nf |-> nf, val |-> val]

Records ==
    { Rec(t, 1, <<>>) : t \in {"tru", "", "xyz"} }
    \cup { Rec("pub", PUBFIELDS, d) : d \in Dates }
    \cup { Rec("sub", PUBFIELDS, d) : d \in Dates \ {<<"9", "9">>} }
    \cup { Rec(t, 2, <<>>) : t \in {"pub", "sub", "uid", "fpr"} }
    \cup { Rec("uid", PUBFIELDS, u) : u \in UserIds }
    \cup { Rec("fpr", PUBFIELDS, f) : f \in Fprs }

\* ---------------------------------------------------------------- state
VARIABLES
    pc,          \* position of the main thread in __main__ and in Start
    step,        \* which gpg invocation c is: "import", "list", "export"
    uid,         \* the uid argument, then validate_uid of it
    keydata,     \* contents of the key file
    GPGDIR,      \* TRUE once mkdtemp has set the global
    dirExists,   \* the temporary directory is on disk
    c,           \* the current RunProgram object
    wpc,         \* position of the RunProgram thread in run()
    child,       \* the gpg process started by Popen
    indata,      \* the lines of the listing parse_key has read so far
    heap,        \* the OpenPGPKey objects, in order of construction
    p,           \* parse_key's p / __main__'s pgpkey: a heap index, 0 = None
    pubkeySeen,
    currentKey,  \* a heap index, 0 = None
    exitcode,    \* exit status of the process, meaningful when pc = "exit"
    msg,         \* the error message __main__ printed, "" while none
    exc,         \* the uncaught exception that ended the main thread, or ""
    printed,     \* the record has been written to stdout
    trace,       \* the steps of __main__ begun so far, in order
    call         \* a call of get_ownername or gen_openpgpkey on its own: its
                 \* arguments, and its result once it has returned or raised

progVars == << pc, step, uid, keydata, GPGDIR, dirExists, c, wpc, child,
               indata, heap, p, pubkeySeen, currentKey, exitcode, msg, exc,
               printed, trace >>

vars == << progVars, call >>

runnerVars == << c, wpc, child >>
parserVars == << indata, heap, p, pubkeySeen, currentKey >>
inputVars == << uid, keydata >>
exitVars == << exitcode, msg, exc >>

\* RunProgram.__init__
NewRunProgram == [output |-> <<>>, hasrc |-> FALSE, returncode |-> 0,
                  hasp |-> FALSE, preturncode |-> 0]

\* The process: "none" before Popen, "running", "hung" (never exits and does
\* not die of SIGTERM), "zombie" (exited, not waited for), "reaped".
NoChild == [state |-> "none", status |-> 0, termSent |-> FALSE, out |-> <<>>]

\* no call under examination: __main__ is what runs
NoCall == [fn |-> "none", email |-> <<>>, keydata |-> <<>>, generic |-> FALSE,
           done |-> FALSE, exc |-> "", ret |-> <<>>]

Init ==
    /\ pc = "validate"
    /\ step = "none"
    /\ uid \in Args
    /\ keydata = None
    /\ GPGDIR = FALSE
    /\ dirExists = FALSE
    /\ c = NewRunProgram
    /\ wpc = "idle"
    /\ child = NoChild
    /\ indata = <<>>
    /\ heap = <<>>
    /\ p = 0
    /\ pubkeySeen = FALSE
    /\ currentKey = 0
    /\ exitcode = 0
    /\ msg = ""
    /\ exc = ""
    /\ printed = FALSE
    /\ trace = <<>>
    /\ call = NoCall

\* ---------------------------------------------------------------- exits
\* An exception nothing catches: traceback, exit status 1, no cleanup.
Crash(e) ==
    /\ pc' = "exit"
    /\ exitcode' = EXIT_FAILURE
    /\ exc' = e
    /\ UNCHANGED << msg, GPGDIR, dirExists, printed, trace >>

\* error_quit(rc, m): print m, try to remove GPGDIR when it is set (ok tells
\* whether shutil.rmtree succeeds), sys.exit(1).
error_quit(m, ok) ==
    /\ pc' = "exit"
    /\ msg' = m
    /\ exitcode' = EXIT_FAILURE
    /\ dirExists' = IF GPGDIR /\ ok THEN FALSE ELSE dirExists
    /\ trace' = IF GPGDIR THEN Append(trace, "rmtree") ELSE trace
    /\ UNCHANGED << exc, GPGDIR, printed >>

\* ---------------------------------------------------------------- __main__
\* uid = validate_uid(uid); a None result calls error_quit with three
\* arguments, which raises TypeError before error_quit runs.
Validate ==
    /\ pc = "validate"
    /\ LET u == validate_uid(uid)
       IN  IF u = None
           THEN Crash("TypeError") /\ UNCHANGED uid
           ELSE /\ uid' = u
                /\ pc' = "read"
                /\ UNCHANGED << exitVars, GPGDIR, dirExists, printed, trace >>
    /\ UNCHANGED << step, keydata, runnerVars, parserVars >>
    /\ UNCHANGED call

\* keydata = open(infile).read()
ReadFile ==
    /\ pc = "read"
    /\ \E ok \in BOOLEAN, k \in KeyFiles :
          IF ok
          THEN /\ keydata' = k
               /\ pc' = "mkdtemp"
               /\ UNCHANGED << exitVars, GPGDIR, dirExists, printed, trace >>
          ELSE Crash("IOError") /\ UNCHANGED keydata
    /\ UNCHANGED << step, uid, runnerVars, parserVars >>
    /\ UNCHANGED call

\* GPGDIR = mkdtemp(prefix="x", dir=DIR), then the import is set up
Mkdtemp ==
    /\ pc = "mkdtemp"
    /\ \E ok \in BOOLEAN :
          IF ok
          THEN /\ GPGDIR' = TRUE
               /\ dirExists' = TRUE
               /\ step' = "import"
               /\ pc' = "start"
               /\ UNCHANGED << exitVars, printed, trace >>
          ELSE Crash("OSError") /\ UNCHANGED step
    /\ UNCHANGED << inputVars, runnerVars, parserVars >>
    /\ UNCHANGED call

\* ---------------------------------------------------------------- RunProgram
\* c = RunProgram(cmd, indata, GPG_TIMEOUT); c.Start() up to self.start()
StartThread ==
    /\ pc = "start"
    /\ c' = NewRunProgram
    /\ wpc' = "popen"
    /\ child' = NoChild
    /\ trace' = Append(trace, step)
    /\ pc' = "join"
    /\ UNCHANGED << step, inputVars, GPGDIR, dirExists, parserVars, exitVars,
                    printed >>
    /\ UNCHANGED call

\* run(): subprocess.Popen either starts gpg or raises in the thread, which
\* ends the thread with self.p and self.returncode never set.
WorkerPopen ==
    /\ wpc = "popen"
    /\ \E ok \in BOOLEAN :
          IF ok
          THEN /\ child' = [NoChild EXCEPT !.state = "running"]
               /\ c' = [c EXCEPT !.hasp = TRUE]
               /\ wpc' = "communicate"
          ELSE /\ wpc' = "dead"
               /\ UNCHANGED << c, child >>
    /\ UNCHANGED << pc, step, inputVars, GPGDIR, dirExists, parserVars,
                    exitVars, printed, trace >>
    /\ UNCHANGED call

\* self.output = self.p.communicate(input=self.indata)[0]: returns once the
\* process has exited, with all it wrote, and reaps it.
WorkerCommunicate ==
    /\ wpc = "communicate"
    /\ child.state = "zombie"
    /\ child' = [NoChild EXCEPT !.state = "reaped"]
    /\ c' = [c EXCEPT !.output = child.out, !.preturncode = child.status]
    /\ wpc' = "setrc"
    /\ UNCHANGED << pc, step, inputVars, GPGDIR, dirExists, parserVars,
                    exitVars, printed, trace >>
    /\ UNCHANGED call

\* self.returncode = self.p.returncode, and the thread ends
WorkerSetReturncode ==
    /\ wpc = "setrc"
    /\ c' = [c EXCEPT !.returncode = c.preturncode, !.hasrc = TRUE]
    /\ wpc' = "dead"
    /\ UNCHANGED << pc, step, inputVars, GPGDIR, dirExists, parserVars,
                    exitVars, printed, trace, child >>
    /\ UNCHANGED call

\* gpg writes to its stdout
ChildWrite ==
    /\ child.state = "running"
    /\ Len(child.out) < MaxOut
    /\ child' = [child EXCEPT !.out = Append(@, "data")]
    /\ UNCHANGED << pc, step, inputVars, GPGDIR, dirExists, parserVars,
                    exitVars, printed, trace, c, wpc >>
    /\ UNCHANGED call

\* gpg exits by itself, with status 0 or not
ChildExit ==
    /\ child.state = "running"
    /\ \E s \in {0, 2} :
          child' = [child EXCEPT !.state = "zombie", !.status = s]
    /\ UNCHANGED << pc, step, inputVars, GPGDIR, dirExists, parserVars,
                    exitVars, printed, trace, c, wpc >>
    /\ UNCHANGED call

\* gpg blocks for good, with SIGTERM ignored
ChildHangs ==
    /\ child.state = "running"
    /\ child' = [child EXCEPT !.state = "hung"]
    /\ UNCHANGED << pc, step, inputVars, GPGDIR, dirExists, parserVars,
                    exitVars, printed, trace, c, wpc >>
    /\ UNCHANGED call

\* gpg dies of the SIGTERM sent by terminate()
ChildKilled ==
    /\ child.state = "running"
    /\ child.termSent
    /\ child' = [child EXCEPT !.state = "zombie", !.status = 0 - SIGTERM]
    /\ UNCHANGED << pc, step, inputVars, GPGDIR, dirExists, parserVars,
                    exitVars, printed, trace, c, wpc >>
    /\ UNCHANGED call

\* self.join(self.timeout): returns when the thread has ended or when the
\* timeout has passed, whichever comes first
JoinTimeout ==
    /\ pc = "join"
    /\ pc' = "is_alive"
    /\ UNCHANGED << step, inputVars, GPGDIR, dirExists, runnerVars,
                    parserVars, exitVars, printed, trace >>
    /\ UNCHANGED call

\* if self.is_alive(): ... else Start returns
IsAlive ==
    /\ pc = "is_alive"
    /\ IF wpc # "dead"
       THEN pc' = "terminate"
       ELSE pc' = "returncode"
    /\ UNCHANGED << step, inputVars, GPGDIR, dirExists, runnerVars,
                    parserVars, exitVars, printed, trace >>
    /\ UNCHANGED call

\* self.p.terminate(): AttributeError while Popen has not returned, OSError
\* (no such process) once the process has been reaped, else SIGTERM is sent
Terminate ==
    /\ pc = "terminate"
    /\ IF ~c.hasp
       THEN Crash("AttributeError") /\ UNCHANGED child
       ELSE IF child.state = "reaped"
       THEN Crash("OSError") /\ UNCHANGED child
       ELSE /\ child' = [child EXCEPT !.termSent = TRUE]
            /\ pc' = "join2"
            /\ UNCHANGED << exitVars, GPGDIR, dirExists, printed, trace >>
    /\ UNCHANGED << step, inputVars, c, wpc, parserVars >>
    /\ UNCHANGED call

\* self.join(): waits for the thread without a limit
JoinForever ==
    /\ pc = "join2"
    /\ wpc = "dead"
    /\ pc' = "marker"
    /\ UNCHANGED << step, inputVars, GPGDIR, dirExists, runnerVars,
                    parserVars, exitVars, printed, trace >>
    /\ UNCHANGED call

\* self.output += "\nTimeout: No response in %d seconds\n", and Start returns
AppendMarker ==
    /\ pc = "marker"
    /\ c' = [c EXCEPT !.output = Append(@, "Timeout")]
    /\ pc' = "returncode"
    /\ UNCHANGED << step, inputVars, GPGDIR, dirExists, wpc, child,
                    parserVars, exitVars, printed, trace >>
    /\ UNCHANGED call

\* ---------------------------------------------------------------- steps
StepError ==
    [import |-> "gpg import error", list |-> "gpg list_keys error",
     export |-> "gpg export error"]

\* if c.returncode != 0: error_quit(...).  Reading c.returncode raises
\* AttributeError when run() never set it.
ReturncodeOk == c.returncode = 0

CheckReturncode ==
    /\ pc = "returncode"
    /\ \E ok \in BOOLEAN :
          IF ~c.hasrc
          THEN Crash("AttributeError") /\ UNCHANGED << step, parserVars >>
          ELSE IF ~ReturncodeOk
          THEN error_quit(StepError[step], ok) /\ UNCHANGED << step, parserVars >>
          ELSE /\ UNCHANGED << exitVars, GPGDIR, dirExists, printed >>
               /\ CASE step = "import" ->
                         /\ step' = "list"
                         /\ pc' = "start"
                         /\ UNCHANGED << parserVars, trace >>
                    [] step = "list" ->
                         \* pgpkey = parse_key(c.output, keydata) is entered
                         /\ pc' = "parse"
                         /\ trace' = Append(trace, "parse")
                         /\ indata' = <<>>
                         /\ heap' = <<>>
                         /\ p' = 0
                         /\ pubkeySeen' = FALSE
                         /\ currentKey' = 0
                         /\ UNCHANGED step
                    [] step = "export" ->
                         /\ pc' = "gen"
                         /\ trace' = Append(trace, "gen")
                         /\ UNCHANGED << step, parserVars >>
    /\ UNCHANGED << inputVars, runnerVars >>
    /\ UNCHANGED call

\* ---------------------------------------------------------------- OpenPGPKey
IsFloat(s) == IsDigits(s)

\* OpenPGPKey.__init__ (the conversions of alg, keylen and date can raise)
OpenPGPKey(date, kd) ==
    [fingerprint |-> None,
     createDate |-> ToNum(date),
     uidlist |-> <<>>,
     subkeys |-> <<>>,
     keydata |-> IF kd # <<>> /\ kd # None THEN kd ELSE None]

set_fingerprint(h, k, fpr) == [h EXCEPT ![k].fingerprint = fpr]

add_uid(h, k, userid) ==
    [h EXCEPT ![k].uidlist = Append(@, parseaddr(userid))]

add_subkey(h, k, s) == [h EXCEPT ![k].subkeys = Append(@, s)]

has_uid(h, k, u) ==
    LET address == parseaddr(u)[2]
    IN  \E i \in 1..Len(h[k].uidlist) : h[k].uidlist[i][2] = address

\* time.gmtime(t) accepts t
gmtimeOk(t) == t < TimeMax

\* printInfo prints the key and each subkey; unixtime2date raises ValueError
\* for a date time.gmtime rejects
printInfoOk(h, k) ==
    /\ gmtimeOk(h[k].createDate)
    /\ \A i \in 1..Len(h[k].subkeys) : gmtimeOk(h[h[k].subkeys[i]].createDate)

\* ---------------------------------------------------------------- parse_key
MoreThanOne == "ERROR: more than one public key given."
UidWithout == "ERROR: uid found without preceding pubkey."
SubWithout == "ERROR: subkey without preceding pubkey."
FprWithout == "ERROR: fpr found without preceding pubkey."
CouldntParse == "couldn't parse openpgp key"
CouldntFind == "couldn't find uid in given key"

ParserFrame == UNCHANGED << heap, p, pubkeySeen, currentKey >>
ParserGoesOn == pc' = "parse" /\ UNCHANGED << exitVars, GPGDIR, dirExists,
                                              printed, trace >>

\* OnOther with a last branch that rejects a record type it does not know
OnOther_RejectsUnknown(rec) ==
    /\ rec.tag \notin {"pub", "uid", "sub", "fpr"}
    /\ IF rec.tag \in {"tru", ""}
       THEN ParserGoesOn
       ELSE Crash("ValueError")
    /\ ParserFrame

\* rectype == 'tru': continue; and the records no branch matches
OnOther(rec) ==
    /\ rec.tag \notin {"pub", "uid", "sub", "fpr"}
    /\ ParserGoesOn
    /\ ParserFrame

\* OnPub without the test of pubkeySeen
OnPub_NoSecondCheck(rec, ok) ==
    /\ rec.tag = "pub"
    /\ IF rec.nf < PUBFIELDS \/ ~IsFloat(rec.val)
       THEN /\ Crash("ValueError")
            /\ pubkeySeen' = TRUE
            /\ UNCHANGED << heap, p, currentKey >>
       ELSE /\ pubkeySeen' = TRUE
            /\ heap' = Append(heap, OpenPGPKey(rec.val, keydata))
            /\ p' = Len(heap) + 1
            /\ currentKey' = Len(heap) + 1
            /\ ParserGoesOn

OnPub(rec, ok) ==
    /\ rec.tag = "pub"
    /\ IF pubkeySeen
       THEN error_quit(MoreThanOne, ok) /\ ParserFrame
       ELSE IF rec.nf < PUBFIELDS \/ ~IsFloat(rec.val)
       THEN /\ Crash("ValueError")
            /\ pubkeySeen' = TRUE
            /\ UNCHANGED << heap, p, currentKey >>
       ELSE /\ pubkeySeen' = TRUE
            /\ heap' = Append(heap, OpenPGPKey(rec.val, keydata))
            /\ p' = Len(heap) + 1
            /\ currentKey' = Len(heap) + 1
            /\ ParserGoesOn

\* OnUid passing over a uid record that has no pub record before it
OnUid_SkipsWithoutPub(rec, ok) ==
    /\ rec.tag = "uid"
    /\ IF rec.nf <= UIDINDEX
       THEN Crash("IndexError") /\ ParserFrame
       ELSE IF p # 0
       THEN /\ heap' = add_uid(heap, p, rec.val)
            /\ UNCHANGED << p, pubkeySeen, currentKey >>
            /\ ParserGoesOn
       ELSE ParserGoesOn /\ ParserFrame

\* OnUid adding the binding to the current key instead of the primary key
OnUid_ToCurrentKey(rec, ok) ==
    /\ rec.tag = "uid"
    /\ IF rec.nf <= UIDINDEX
       THEN Crash("IndexError") /\ ParserFrame
       ELSE IF p # 0
       THEN /\ heap' = add_uid(heap, currentKey, rec.val)
            /\ UNCHANGED << p, pubkeySeen, currentKey >>
            /\ ParserGoesOn
       ELSE error_quit(UidWithout, ok) /\ ParserFrame

OnUid(rec, ok) ==
    /\ rec.tag = "uid"
    /\ IF rec.nf <= UIDINDEX
       THEN Crash("IndexError") /\ ParserFrame
       ELSE IF p # 0
       THEN /\ heap' = add_uid(heap, p, rec.val)
            /\ UNCHANGED << p, pubkeySeen, currentKey >>
            /\ ParserGoesOn
       ELSE error_quit(UidWithout, ok) /\ ParserFrame

\* OnSub without `currentKey = s`
OnSub_KeepsCurrentKey(rec, ok) ==
    /\ rec.tag = "sub"
    /\ IF ~pubkeySeen
       THEN error_quit(SubWithout, ok) /\ ParserFrame
       ELSE IF rec.nf < PUBFIELDS \/ ~IsFloat(rec.val)
       THEN Crash("ValueError") /\ ParserFrame
       ELSE LET s == Len(heap) + 1
            IN  /\ heap' = add_subkey(Append(heap, OpenPGPKey(rec.val, None)),
                                      p, s)
                /\ UNCHANGED << p, pubkeySeen, currentKey >>
                /\ ParserGoesOn

\* OnSub handing keydata to the subkey as well
OnSub_WithKeydata(rec, ok) ==
    /\ rec.tag = "sub"
    /\ IF ~pubkeySeen
       THEN error_quit(SubWithout, ok) /\ ParserFrame
       ELSE IF rec.nf < PUBFIELDS \/ ~IsFloat(rec.val)
       THEN Crash("ValueError") /\ ParserFrame
       ELSE LET s == Len(heap) + 1
            IN  /\ heap' = add_subkey(Append(heap,
                                             OpenPGPKey(rec.val, keydata)),
                                      p, s)
                /\ currentKey' = s
                /\ UNCHANGED << p, pubkeySeen >>
                /\ ParserGoesOn

OnSub(rec, ok) ==
    /\ rec.tag = "sub"
    /\ IF ~pubkeySeen
       THEN error_quit(SubWithout, ok) /\ ParserFrame
       ELSE IF rec.nf < PUBFIELDS \/ ~IsFloat(rec.val)
       THEN Crash("ValueError") /\ ParserFrame
       ELSE LET s == Len(heap) + 1
            IN  /\ heap' = add_subkey(Append(heap, OpenPGPKey(rec.val, None)),
                                      p, s)
                /\ currentKey' = s
                /\ UNCHANGED << p, pubkeySeen >>
                /\ ParserGoesOn

\* OnFpr setting the fingerprint of the primary key instead of the current key
OnFpr_ToPrimary(rec, ok) ==
    /\ rec.tag = "fpr"
    /\ IF rec.nf <= UIDINDEX
       THEN Crash("IndexError") /\ ParserFrame
       ELSE IF p # 0
       THEN /\ heap' = set_fingerprint(heap, p, rec.val)
            /\ UNCHANGED << p, pubkeySeen, currentKey >>
            /\ ParserGoesOn
       ELSE error_quit(FprWithout, ok) /\ ParserFrame

OnFpr(rec, ok) ==
    /\ rec.tag = "fpr"
    /\ IF rec.nf <= UIDINDEX
       THEN Crash("IndexError") /\ ParserFrame
       ELSE IF p # 0
       THEN /\ heap' = set_fingerprint(heap, currentKey, rec.val)
            /\ UNCHANGED << p, pubkeySeen, currentKey >>
            /\ ParserGoesOn
       ELSE error_quit(FprWithout, ok) /\ ParserFrame

\* One pass of `for line in indata.split('\n')`: the next line of the
\* listing is any record.
ParseLine ==
    /\ pc = "parse"
    /\ Len(indata) < MaxLines
    /\ \E rec \in Records, ok \in BOOLEAN :
          /\ indata' = Append(indata, rec)
          /\ \/ OnOther(rec)
             \/ OnPub(rec, ok)
             \/ OnUid(rec, ok)
             \/ OnSub(rec, ok)
             \/ OnFpr(rec, ok)
    /\ UNCHANGED << step, inputVars, runnerVars >>
    /\ UNCHANGED call

\* ParseReturn without `if not pgpkey`
ParseReturn_NoCheck ==
    /\ pc = "parse"
    /\ pc' = "printInfo"
    /\ trace' = Append(trace, "printInfo")
    /\ UNCHANGED << exitVars, GPGDIR, dirExists, printed >>
    /\ UNCHANGED << step, inputVars, runnerVars, parserVars >>
    /\ UNCHANGED call

\* The listing ends: return p; if not pgpkey: error_quit(...)
ParseReturn ==
    /\ pc = "parse"
    /\ \E ok \in BOOLEAN :
          IF p = 0
          THEN error_quit(CouldntParse, ok)
          ELSE /\ pc' = "printInfo"
               /\ trace' = Append(trace, "printInfo")
               /\ UNCHANGED << exitVars, GPGDIR, dirExists, printed >>
    /\ UNCHANGED << step, inputVars, runnerVars, parserVars >>
    /\ UNCHANGED call

\* pgpkey.printInfo()
PrintInfo ==
    /\ pc = "printInfo"
    /\ IF p = 0
       THEN Crash("AttributeError")
       ELSE IF printInfoOk(heap, p)
       THEN /\ pc' = "has_uid"
            /\ trace' = Append(trace, "has_uid")
            /\ UNCHANGED << exitVars, GPGDIR, dirExists, printed >>
       ELSE Crash("ValueError")
    /\ UNCHANGED << step, inputVars, runnerVars, parserVars >>
    /\ UNCHANGED call

\* if not pgpkey.has_uid(uid): error_quit(...); else the export is set up
HasUid ==
    /\ pc = "has_uid"
    /\ \E ok \in BOOLEAN :
          IF has_uid(heap, p, uid)
          THEN /\ step' = "export"
               /\ pc' = "start"
               /\ UNCHANGED << exitVars, GPGDIR, dirExists, printed, trace >>
          ELSE error_quit(CouldntFind, ok) /\ UNCHANGED step
    /\ UNCHANGED << inputVars, runnerVars, parserVars >>
    /\ UNCHANGED call

\* print(gen_openpgpkey(uid, c.output, generic=GENERIC))
Gen ==
    /\ pc = "gen"
    /\ printed' = TRUE
    /\ pc' = "rmtree"
    /\ trace' = Append(trace, "rmtree")
    /\ UNCHANGED << step, inputVars, GPGDIR, dirExists, runnerVars,
                    parserVars, exitVars >>
    /\ UNCHANGED call

DeletingDir == "ERROR: deleting gpg directory"

\* Rmtree ending the script with status 0 also when the removal failed
Rmtree_IgnoresFailure ==
    /\ pc = "rmtree"
    /\ \E ok \in BOOLEAN :
          /\ dirExists' = ~ok
          /\ exitcode' = 0
          /\ msg' = IF ok THEN msg ELSE DeletingDir
    /\ pc' = "exit"
    /\ UNCHANGED << step, inputVars, GPGDIR, runnerVars, parserVars, exc,
                    printed, trace >>
    /\ UNCHANGED call

\* if not rmtree(GPGDIR): print(...); sys.exit(11); else the script ends
Rmtree ==
    /\ pc = "rmtree"
    /\ \E ok \in BOOLEAN :
          /\ dirExists' = ~ok
          /\ exitcode' = IF ok THEN 0 ELSE EXIT_RMTREE
          /\ msg' = IF ok THEN msg ELSE DeletingDir
    /\ pc' = "exit"
    /\ UNCHANGED << step, inputVars, GPGDIR, runnerVars, parserVars, exc,
                    printed, trace >>
    /\ UNCHANGED call

Next ==
    \/ Validate
    \/ ReadFile
    \/ Mkdtemp
    \/ StartThread
    \/ WorkerPopen
    \/ WorkerCommunicate
    \/ WorkerSetReturncode
    \/ ChildWrite
    \/ ChildExit
    \/ ChildKilled
    \/ ChildHangs
    \/ JoinTimeout
    \/ IsAlive
    \/ Terminate
    \/ JoinForever
    \/ AppendMarker
    \/ CheckReturncode
    \/ ParseLine
    \/ ParseReturn
    \/ PrintInfo
    \/ HasUid
    \/ Gen
    \/ Rmtree

Spec == Init /\ [][Next]_vars

\* RunProgram.Start on its own: the state in which __main__ calls c.Start()
\* for the import, and the steps of Start, of the thread and of the process.
RunnerInit ==
    /\ pc = "start"
    /\ step = "import"
    /\ uid \in {validate_uid(a) : a \in Args} \ {None}
    /\ keydata \in KeyFiles
    /\ GPGDIR = TRUE
    /\ dirExists = TRUE
    /\ c = NewRunProgram
    /\ wpc = "idle"
    /\ child = NoChild
    /\ indata = <<>>
    /\ heap = <<>>
    /\ p = 0
    /\ pubkeySeen = FALSE
    /\ currentKey = 0
    /\ exitcode = 0
    /\ msg = ""
    /\ exc = ""
    /\ printed = FALSE
    /\ trace = <<>>
    /\ call = NoCall

MainSteps ==
    StartThread \/ JoinTimeout \/ IsAlive \/ Terminate \/ JoinForever
        \/ AppendMarker

WorkerSteps == WorkerPopen \/ WorkerCommunicate \/ WorkerSetReturncode

RunnerNext ==
    \/ MainSteps
    \/ WorkerSteps
    \/ ChildWrite
    \/ ChildExit
    \/ ChildKilled
    \/ ChildHangs

\* Both threads are scheduled; a process that is running and has not hung
\* exits in the end, and one that SIGTERM can kill dies of it.
FairRunner ==
    /\ RunnerInit
    /\ [][RunnerNext]_vars
    /\ WF_vars(MainSteps)
    /\ WF_vars(WorkerSteps)
    /\ WF_vars(ChildExit)
    /\ WF_vars(ChildKilled)

\* ---------------------------------------------------------------- functions
\* get_ownername and gen_openpgpkey called on their own.
MaxLocal == 2

\* characters of a local part, and the local parts of up to MaxLocal of them
LocalChars == {"j", "J", "-"}
LocalParts == UNION {[1..n -> LocalChars] : n \in 1..MaxLocal}

\* the part after the "@": "x", "x.", "X.org", "x.y."
Domains ==
    { << "x" >>, << "x", "." >>, << "X", ".", "o", "r", "g" >>,
      << "x", ".", "y", "." >> }

\* what validate_uid can return: local@domain; "j@", with nothing after the
\* "@"; and "j@x"@y, an address whose quoted local part holds an "@"
Emails ==
    { l \o << "@" >> \o d : l \in LocalParts, d \in Domains }
    \cup { << "j", "@" >>, << "\"", "j", "@", "x", "\"", "@", "y" >> }

\* the emails gen_openpgpkey is called with: "j@x", "J-@x.y.", "j@x"@y
GenEmails ==
    { << "j", "@", "x" >>, << "J", "-", "@", "x", ".", "y", "." >>,
      << "\"", "j", "@", "x", "\"", "@", "y" >> }

\* key material: n bytes, the first one `first`, each next one `stride` more
KeySizes == {0, 1, 2, 3, 29, 30, 31, 44, 45, 46, 59, 60, 61, 1000}
Fill(n, first, stride) == [i \in 1..n |-> (first + stride * (i - 1)) % 256]
KeyBytes ==
    { Fill(n, f[1], f[2]) :
        n \in KeySizes, f \in { << 0, 0 >>, << 255, 0 >>, << 7, 37 >> } }

FunctionsInit ==
    /\ pc = "validate"
    /\ step = "none"
    /\ uid = None
    /\ keydata = None
    /\ GPGDIR = FALSE
    /\ dirExists = FALSE
    /\ c = NewRunProgram
    /\ wpc = "idle"
    /\ child = NoChild
    /\ indata = <<>>
    /\ heap = <<>>
    /\ p = 0
    /\ pubkeySeen = FALSE
    /\ currentKey = 0
    /\ exitcode = 0
    /\ msg = ""
    /\ exc = ""
    /\ printed = FALSE
    /\ trace = <<>>
    /\ \/ \E e \in Emails :
             call = [NoCall EXCEPT !.fn = "get_ownername", !.email = e]
       \/ \E e \in GenEmails, k \in KeyBytes, g \in BOOLEAN :
             call = [NoCall EXCEPT !.fn = "gen_openpgpkey", !.email = e,
                                   !.keydata = k, !.generic = g]

\* get_ownername(email): the owner name, or the ValueError of the unpacking
GetOwnername ==
    /\ call.fn = "get_ownername"
    /\ ~call.done
    /\ call' = IF Unpacks(call.email)
               THEN [call EXCEPT !.done = TRUE,
                                 !.ret = get_ownername(call.email)]
               ELSE [call EXCEPT !.done = TRUE, !.exc = "ValueError"]
    /\ UNCHANGED progVars

\* gen_openpgpkey(email, keydata, generic): the record, or the ValueError
\* get_ownername raised
GenOpenpgpkey ==
    /\ call.fn = "gen_openpgpkey"
    /\ ~call.done
    /\ call' = IF Unpacks(call.email)
               THEN [call EXCEPT !.done = TRUE,
                                 !.ret = gen_openpgpkey(call.email,
                                                        call.keydata,
                                                        call.generic)]
               ELSE [call EXCEPT !.done = TRUE, !.exc = "ValueError"]
    /\ UNCHANGED progVars

FunctionsNext ==
    \/ GetOwnername
    \/ GenOpenpgpkey

Functions == FunctionsInit /\ [][FunctionsNext]_vars

TypeOK ==
    /\ pc \in {"validate", "read", "mkdtemp", "start", "join", "is_alive",
               "terminate", "join2", "marker", "returncode", "parse",
               "printInfo", "has_uid", "gen", "rmtree", "exit"}
    /\ p \in 0..Len(heap)
    /\ currentKey \in 0..Len(heap)

\* ================================================================ claims
\* Helpers over the lines read so far
Tags(t) == {i \in 1..Len(indata) : indata[i].tag = t}
PubCount == Cardinality(Tags("pub"))
Ignored(rec) == rec.tag \notin {"pub", "uid", "sub", "fpr"}
Failed == pc = "exit" /\ exitcode # 0
KeyReturned == "printInfo" \in Range(trace)
Parsing == "parse" \in Range(trace)

\* the bindings the uid records read so far stand for, in document order
RECURSIVE Bindings(_)
Bindings(lines) ==
    IF lines = <<>> THEN <<>>
    ELSE LET rest == Bindings(SubSeq(lines, 1, Len(lines) - 1))
             last == lines[Len(lines)]
         IN  IF last.tag = "uid" /\ last.nf > UIDINDEX
             THEN Append(rest, parseaddr(last.val))
             ELSE rest

\* C1: a listing with a second pub record makes parse_key fail: the run
\* ends through error_quit with a non-zero status and no key is returned,
\* wherever the second pub record is and whatever lies between the two.
C1_SecondPubFails ==
    PubCount >= 2 =>
        /\ Failed
        /\ msg = MoreThanOne
        /\ ~KeyReturned

\* C1 witness: two pub records with another record between them were read
\* and the run has failed.
C1_Witness ==
    /\ Failed
    /\ \E i, j \in Tags("pub") : j > i + 1

\* C2: a uid, fpr or sub record read before any pub record makes parse_key
\* fail; it is never passed over.
C2_BeforePubFails ==
    (\E i \in 1..Len(indata) :
        /\ indata[i].tag \in {"uid", "fpr", "sub"}
        /\ \A j \in 1..(i - 1) : indata[j].tag # "pub")
    => /\ Failed
       /\ ~KeyReturned
       /\ msg \in {UidWithout, SubWithout, FprWithout} \/ exc = "IndexError"

\* C2 witness: a run has failed with the uid message on a uid record that
\* only a tru record precedes.
C2_Witness ==
    /\ Failed
    /\ Len(indata) = 2
    /\ indata[1].tag = "tru"
    /\ indata[2].tag = "uid"
    /\ msg = UidWithout

\* C3: the primary key's bindings are those of the uid records read, one per
\* record and in document order, also with sub records between the pub and
\* the uid record; no other key has a binding.
C3_UidsOnPrimary ==
    p # 0 =>
        /\ heap[p].uidlist = Bindings(indata)
        /\ \A k \in 1..Len(heap) : k # p => heap[k].uidlist = <<>>

\* C3 witness: an accepted listing with a sub record between the pub record
\* and a uid record, and a second uid record.
C3_Witness ==
    /\ pc = "printInfo"
    /\ Len(indata) = 4
    /\ indata[1].tag = "pub"
    /\ indata[2].tag = "sub"
    /\ indata[3].tag = "uid"
    /\ indata[4].tag = "uid"
    /\ indata[3].val # indata[4].val
    /\ Len(heap[p].uidlist) = 2

\* C4 as stated: once a key's fingerprint is set, no later record changes it.
C4_FingerprintSetOnce ==
    [][\A k \in 1..Len(heap) :
          (k <= Len(heap') /\ heap[k].fingerprint # None)
          => heap'[k].fingerprint = heap[k].fingerprint]_vars

\* C4 amended: a key's fingerprint, once set, changes only when a fpr record
\* is read while that key is the current key, and then becomes that record's
\* fingerprint; no other record changes it.
C4_FingerprintOfCurrentKey ==
    [][\A k \in 1..Len(heap) :
          (k <= Len(heap') /\ heap[k].fingerprint # None
             /\ heap'[k].fingerprint # heap[k].fingerprint)
          => /\ k = currentKey
             /\ Len(indata') = Len(indata) + 1
             /\ indata'[Len(indata')].tag = "fpr"
             /\ heap'[k].fingerprint = indata'[Len(indata')].val]_vars

\* C4 witness: two fpr records followed the same sub header and the subkey
\* has the fingerprint of the second.
C4_Witness ==
    /\ Len(indata) = 4
    /\ indata[1].tag = "pub"
    /\ indata[2].tag = "sub"
    /\ indata[3].tag = "fpr"
    /\ indata[4].tag = "fpr"
    /\ indata[3].val # indata[4].val
    /\ Len(heap) = 2
    /\ heap[2].fingerprint = indata[4].val

\* C5: a listing without a pub record ends the run with the parse error and
\* a non-zero status; the identity check is not reached and no export is
\* started.
C5_NoPubFails ==
    (Parsing /\ PubCount = 0) =>
        /\ pc \in {"parse", "exit"}
        /\ ~KeyReturned
        /\ "has_uid" \notin Range(trace)
        /\ "export" \notin Range(trace)
        /\ pc = "exit" => Failed
        /\ (pc = "exit" /\ \A i \in 1..Len(indata) : Ignored(indata[i]))
              => msg = CouldntParse

\* C5 witness: the run has ended on a listing of a tru record, an empty line
\* and an unknown record.
C5_Witness ==
    /\ pc = "exit"
    /\ Parsing
    /\ {indata[i].tag : i \in 1..Len(indata)} = {"tru", "", "xyz"}
    /\ msg = CouldntParse

Started(s) == s \in Range(trace)
TimeoutBranch == "Timeout" \in Range(c.output)

\* C6: list is started only after import has completed with status 0, and
\* export only after list has completed with status 0 and the listing was
\* parsed; no later step is started after an earlier one failed or timed out.
C6_StrictOrder ==
    [][(pc # "start" /\ pc' = "start" /\ step' \in {"list", "export"})
         => /\ c.hasrc
            /\ c.returncode = 0
            /\ ~TimeoutBranch
            /\ step' = "list" => step = "import"
            /\ step' = "export" => (step = "list" /\ KeyReturned)]_vars

\* C7: after a successfully parsed listing the export is started if and only
\* if a binding of the primary key has the requested address; without a match
\* the run ends with the identity-not-found error.
C7_ExportIffMatch ==
    (KeyReturned /\ pc \notin {"printInfo", "has_uid", "start"}) =>
        /\ Started("export") <=> has_uid(heap, p, uid)
        /\ (pc = "exit" /\ ~has_uid(heap, p, uid)) => msg = CouldntFind

\* C8: when Start has taken the timeout branch, the status it reports is not
\* zero.
C8_TimeoutIsFailure ==
    (pc = "returncode" /\ TimeoutBranch) => (c.hasrc /\ c.returncode # 0)

\* C9: Start returns in the end, whatever the process does.
C9_StartReturns == (pc = "join") ~> (pc \in {"returncode", "exit"})

\* C10: a process that fails to start is not a normal return of Start without
\* a status, and the run then ends through error_quit with the tool's error
\* and the temporary directory's removal tried.
C10_StartFailureSurfaced ==
    (wpc = "dead" /\ ~c.hasp) =>
        /\ ~(pc = "returncode" /\ ~c.hasrc)
        /\ pc = "exit" =>
              (exc = "" /\ msg = StepError[step] /\ Started("rmtree"))

\* C11: a run that created the temporary directory tries to remove it before
\* the process exits, on every path.
C11_CleanupAttempted == (pc = "exit" /\ GPGDIR) => Started("rmtree")

\* C12 as stated: when every step succeeded and only the final removal
\* fails, the run still ends with status 0.
C12_RmtreeFailureKeepsSuccess == (pc = "exit" /\ printed) => exitcode = 0

\* C12 amended: after the record was written, a failed final removal is
\* reported and ends the run with status 11, a successful one with status 0;
\* a run that failed before ends with status 1 whether or not the removal in
\* error_quit succeeds.
C12_RmtreeFailureExits11 ==
    pc = "exit" =>
        /\ printed => exitcode = (IF dirExists THEN EXIT_RMTREE ELSE 0)
        /\ (printed /\ dirExists) => msg = DeletingDir
        /\ ~printed => exitcode = EXIT_FAILURE

\* C12 witness: the record was written, the final removal failed and the run
\* ended with status 11.
C12_Witness ==
    /\ pc = "exit"
    /\ printed
    /\ dirExists
    /\ exitcode = EXIT_RMTREE

\* C13: a run in which a step failed ends with a non-zero status after a
\* diagnostic message, and a run ends with status 0 only after the record was
\* written.
C13_ExitStatus ==
    pc = "exit" =>
        /\ exitcode # 0 => msg # ""
        /\ exitcode = 0 => printed

\* Helpers: the records read so far that opened a key (the first pub record
\* and the sub records, well-formed), and the fpr records that gave a value
Headers ==
    {i \in 1..Len(indata) :
        /\ indata[i].tag \in {"pub", "sub"}
        /\ indata[i].nf >= PUBFIELDS
        /\ IsFloat(indata[i].val)
        /\ indata[i].tag = "pub" => \A j \in 1..(i - 1) : indata[j].tag # "pub"}

HeadersBefore(i) == Cardinality({h \in Headers : h < i})

FprsOf(k) ==
    {i \in 1..Len(indata) :
        /\ indata[i].tag = "fpr"
        /\ indata[i].nf > UIDINDEX
        /\ HeadersBefore(i) = k}

LastOf(S) == CHOOSE i \in S : \A j \in S : j <= i

\* C18: each key's fingerprint is that of the last fpr record read between
\* its own header and the next one, so a fpr record sets the key of the most
\* recent pub or sub header and no other; every sub record appends one subkey
\* to the primary key, in document order, and makes it the current key.
C18_FprOnMostRecentHeader ==
    p # 0 =>
        /\ p = 1
        /\ Len(heap) = Cardinality(Headers)
        /\ currentKey = Len(heap)
        /\ heap[p].subkeys = [i \in 1..(Len(heap) - 1) |-> i + 1]
        /\ \A k \in 1..Len(heap) :
              /\ heap[k].fingerprint =
                    (IF FprsOf(k) = {} THEN None
                     ELSE indata[LastOf(FprsOf(k))].val)
              /\ k # p => heap[k].subkeys = <<>>

\* C18 witness: pub, fpr, sub, fpr were read; the primary key has the first
\* fingerprint and the subkey the second.
C18_Witness ==
    /\ pc = "parse"
    /\ Len(indata) = 4
    /\ indata[1].tag = "pub"
    /\ indata[2].tag = "fpr"
    /\ indata[3].tag = "sub"
    /\ indata[4].tag = "fpr"
    /\ indata[2].val # indata[4].val
    /\ heap[1].fingerprint = indata[2].val
    /\ heap[2].fingerprint = indata[4].val
    /\ heap[1].subkeys = <<2>>
    /\ currentKey = 2

ExportDone == pc \in {"gen", "rmtree"} \/ printed

\* C19 as stated: no subkey carries raw key material, and the primary key
\* carries none before the export has completed.
C19_KeydataOnlyAfterExport ==
    \A k \in 1..Len(heap) :
        /\ k # p => heap[k].keydata = None
        /\ (k = p /\ ~ExportDone) => heap[k].keydata = None

\* C19 amended: no subkey carries key material; the primary key carries the
\* contents of the key file given on the command line from the moment its pub
\* record is parsed (None for an empty file), before and after the export.
C19_KeydataIsInputFile ==
    \A k \in 1..Len(heap) :
        heap[k].keydata = (IF k = p /\ keydata # <<>> THEN keydata ELSE None)

\* C19 witness: during parsing, before any export, the primary key holds the
\* key file's bytes and a subkey holds none.
C19_Witness ==
    /\ pc = "parse"
    /\ ~Started("export")
    /\ Len(heap) = 2
    /\ heap[p].keydata = <<"K">>
    /\ heap[2].keydata = None

\* C20: reading a tru record, an empty line or a record of an unknown type
\* changes nothing of the parser state and does not end the run, before and
\* after the pub record.
C20_IgnoredRecords ==
    [][(pc = "parse" /\ Len(indata') = Len(indata) + 1
          /\ Ignored(indata'[Len(indata')]))
       => /\ UNCHANGED << heap, p, pubkeySeen, currentKey >>
          /\ UNCHANGED << exitcode, msg, exc >>
          /\ pc' = "parse"]_vars

\* C20 witness: a tru record was read before the pub record, an empty line
\* and an unknown record after it, and parsing goes on with the key as the
\* pub record left it.
C20_Witness ==
    /\ pc = "parse"
    /\ Len(indata) = 4
    /\ indata[1].tag = "tru"
    /\ indata[2].tag = "pub"
    /\ indata[3].tag = ""
    /\ indata[4].tag = "xyz"
    /\ p = 1
    /\ currentKey = 1
    /\ Len(heap) = 1

\* Helpers: calls that returned, the lines of a text, the concatenation of a
\* sequence of strings, and base64 decoding.
OwnerReturned == call.fn = "get_ownername" /\ call.done /\ call.exc = ""
GenReturned == call.fn = "gen_openpgpkey" /\ call.done /\ call.exc = ""
Lines(s) == split(s, "\n")
Indented(line) == Len(line) >= 18 /\ \A i \in 1..18 : line[i] = " "
Unindent(line) == SubSeq(line, 19, Len(line))

RECURSIVE Concat(_)
Concat(ss) == IF ss = <<>> THEN <<>> ELSE Head(ss) \o Concat(Tail(ss))

B64Val(ch) ==
    IF ch = "=" THEN 0 ELSE (CHOOSE i \in 1..64 : B64Alphabet[i] = ch) - 1

B64Decode(t) ==
    LET pads == Cardinality({i \in 1..Len(t) : t[i] = "="})
    IN  [k \in 1..(3 * (Len(t) \div 4) - pads) |->
            LET g == 4 * ((k - 1) \div 3)
                c1 == B64Val(t[g + 1])
                c2 == B64Val(t[g + 2])
                c3 == B64Val(t[g + 3])
                c4 == B64Val(t[g + 4])
            IN  CASE (k - 1) % 3 = 0 -> c1 * 4 + (c2 \div 16)
                  [] (k - 1) % 3 = 1 -> (c2 % 16) * 16 + (c3 \div 4)
                  [] (k - 1) % 3 = 2 -> (c3 % 4) * 64 + c4]

\* local@domain with one "@", something on both sides of it, and a domain
\* that does not end in two dots
ValidAddress(e) ==
    /\ Len(split(e, "@")) = 2
    /\ split(e, "@")[1] # <<>>
    /\ split(e, "@")[2] # <<>>
    /\ LET d == split(e, "@")[2]
       IN  ~(Len(d) >= 2 /\ d[Len(d)] = "." /\ d[Len(d) - 1] = ".")

\* C14: for a valid address local@domain, get_ownername returns 56 lowercase
\* hex characters, the first 56 of the SHA-256 hex digest of the local part as
\* given, then "._openpgpkey.", then the domain, with a dot appended when the
\* domain does not end in one and none added when it does, so that the name
\* ends in exactly one dot.
C14_OwnerName ==
    (call.fn = "get_ownername" /\ call.done /\ ValidAddress(call.email)) =>
        LET localpart == split(call.email, "@")[1]
            domain == split(call.email, "@")[2]
            o == call.ret
            n == Len(o)
        IN  /\ call.exc = ""
            /\ n >= 56 + 13 + Len(domain)
            /\ \A i \in 1..56 : o[i] \in Range(HexDigits)
            /\ SubSeq(o, 1, 56) = SubSeq(sha256_hexdigest(localpart), 1, 56)
            /\ SubSeq(o, 57, 69) = Label
            /\ SubSeq(o, 70, n) =
                   (IF domain[Len(domain)] = "." THEN domain
                    ELSE domain \o << "." >>)
            /\ o[n] = "."
            /\ o[n - 1] # "."

\* C14 witness: get_ownername("J@x.") returned the first 56 hex characters of
\* the SHA-256 digest of "J" (not of "j"), the label and "x." with no dot
\* added.
C14_Witness ==
    /\ OwnerReturned
    /\ call.email = << "J", "@", "x", "." >>
    /\ call.ret =
        << "6", "d", "a", "4", "3", "b", "9", "4", "4", "e", "4", "9", "4",
           "e", "8", "8", "5", "e", "6", "9", "a", "f", "0", "2", "1", "f",
           "9", "3", "c", "6", "d", "9", "3", "3", "1", "c", "7", "8", "a",
           "a", "2", "2", "8", "0", "8", "4", "7", "1", "1", "4", "2", "9",
           "1", "6", "0", "a", ".", "_", "o", "p", "e", "n", "p", "g", "p",
           "k", "e", "y", ".", "x", "." >>

\* C15: in typed mode, for N in {0, 1, 59, 60, 61, 1000} input bytes, the
\* body lines without their 18 spaces, concatenated in order, are the base64
\* encoding of the input, and decoding them gives the N bytes back; every
\* body line but the last holds 60 encoded characters and the last 1 to 60.
C15_TypedRoundTrip ==
    (GenReturned /\ ~call.generic
        /\ Len(call.keydata) \in {0, 1, 59, 60, 61, 1000}) =>
        LET lines == Lines(call.ret)
            body == SubSeq(lines, 2, Len(lines) - 1)
            text == Concat([i \in 1..Len(body) |-> Unindent(body[i])])
        IN  /\ Len(lines) >= 2
            /\ \A i \in 1..Len(body) :
                  /\ Indented(body[i])
                  /\ i < Len(body) => Len(Unindent(body[i])) = 60
                  /\ i = Len(body) => Len(Unindent(body[i])) \in 1..60
            /\ text = standard_b64encode(call.keydata)
            /\ Len(text) % 4 = 0
            /\ B64Decode(text) = call.keydata

\* C15 witness: 61 bytes in typed mode gave a header line, a body line of 60
\* characters, a last body line of 24, and the closing line.
C15_Witness ==
    /\ GenReturned
    /\ ~call.generic
    /\ Len(call.keydata) = 61
    /\ Len(Lines(call.ret)) = 4
    /\ Len(Unindent(Lines(call.ret)[2])) = 60
    /\ Len(Unindent(Lines(call.ret)[3])) = 24

\* C16: in both modes and for every input, the output is a header line
\* ending in "(", then the body lines, each on a line of its own after 18
\* spaces, then a last line that is ")" alone.
C16_RecordLayout ==
    GenReturned =>
        LET lines == Lines(call.ret)
            header == lines[1]
        IN  /\ Len(lines) >= 2
            /\ header # <<>> /\ header[Len(header)] = "("
            /\ \A i \in 2..(Len(lines) - 1) :
                  Indented(lines[i]) /\ Len(lines[i]) > 18
            /\ lines[Len(lines)] = << ")" >>

NotBlank(ch) == ch \notin {" ", "\n"}

\* C17: in generic mode the decimal field between "\# " and " (" is the
\* number N of input bytes, and what stands between "(" and the closing ")"
\* is, blanks and line ends apart, 2*N hex characters: the hex encoding of
\* the input.
C17_GenericLength ==
    (GenReturned /\ call.generic) =>
        LET o == call.ret
            hash == FindFrom(o, "#", 1)
            paren == FindFrom(o, "(", 1)
            field == SubSeq(o, hash + 2, paren - 2)
            body == SelectSeq(SubSeq(o, paren + 1, Len(o) - 1), NotBlank)
        IN  /\ hash > 1 /\ o[hash - 1] = "\\" /\ o[hash + 1] = " "
            /\ paren > hash /\ o[paren - 1] = " "
            /\ o[Len(o)] = ")"
            /\ field = ToDecimal(Len(call.keydata))
            /\ IsDigits(field) /\ ToNum(field) = Len(call.keydata)
            /\ Len(body) = 2 * Len(call.keydata)
            /\ \A i \in 1..Len(body) : body[i] \in Range(HexDigits)
            /\ body = HexEncode(call.keydata)

\* C17 witness: 1000 bytes in generic mode gave the length field "1000" and
\* 2000 hex characters.
C17_Witness ==
    /\ GenReturned
    /\ call.generic
    /\ Len(call.keydata) = 1000
    /\ SubSeq(call.ret, FindFrom(call.ret, "#", 1) + 2,
              FindFrom(call.ret, "(", 1) - 2) = << "1", "0", "0", "0" >>
    /\ Len(SelectSeq(SubSeq(call.ret, FindFrom(call.ret, "(", 1) + 1,
                             Len(call.ret) - 1), NotBlank)) = 2000

====
